---- MODULE Spec2Model ----
(***************************************************************************)
(* ViPRA-UI: the request pipeline of app.py and the pure functions of      *)
(* core/gui_analysis.py, core/review_analysis.py, core/mllm_integration.py *)
(*                                                                         *)
(* Text is a sequence of atoms.  An atom is a TLA+ string standing for one *)
(* character ("{", "}", ",", ":", the double quote, a letter, a blank) or   *)
(* for an indivisible run of characters that holds none of the characters  *)
(* the code looks for ("mismatch_detected", "0.9", "Sure!").               *)
(***************************************************************************)
EXTENDS Integers, Sequences, FiniteSets, TLC

VARIABLES
    analyzer,             \* app.py:14/18   "unset" | "ready" | "None"
    nlp,                  \* review_analysis.py:6/10  "unset" | "loaded" | "None"
    init_attempts,        \* number of MLLMAnalyzer(...) constructions
    pc,                   \* position of the running handler / function
    served,               \* requests started so far
    screenshot_image,     \* request input
    review_text,          \* request input
    xml_file,             \* request input
    sentences,            \* app.py:40
    functional_snippet,   \* app.py:41
    ui_elements,          \* app.py:45-47
    annotated,            \* value returned by annotate_screenshot
    task_prompt,          \* mllm_integration.py:114
    generated_text,       \* mllm_integration.py:136
    analysis_result,      \* app.py:57
    outcome,              \* how the handler ended
    calls,                \* stages run by the current request, in order
    shape                 \* how the input of a pure function was put together

vars == <<analyzer, nlp, init_attempts, pc, served, screenshot_image, review_text,
          xml_file, sentences, functional_snippet, ui_elements, annotated,
          task_prompt, generated_text, analysis_result, outcome, calls, shape>>

-----------------------------------------------------------------------------
(* Bounds of the model *)

MaxProse == 2          \* atoms of prose before / after the JSON object
MaxElements == 3       \* widgets handed to annotate_screenshot
MaxSentences == 3      \* sentences handed to extract_functional_snippets
MaxPieces == 2         \* vocabulary pieces per sentence
MaxDetails == 2        \* widget description strings handed to construct_prompt
MaxRequests == 2       \* requests served after start-up

-----------------------------------------------------------------------------
(* Python string and sequence primitives *)

Q == "\""

Min(a, b) == IF a < b THEN a ELSE b
Max(a, b) == IF a > b THEN a ELSE b

\* str.find(c): 0-based index of the first occurrence, -1 when absent
Find(s, c) ==
    IF \E i \in 1..Len(s) : s[i] = c
    THEN (CHOOSE i \in 1..Len(s) : s[i] = c /\ \A j \in 1..(i-1) : s[j] # c) - 1
    ELSE -1

\* str.rfind(c): 0-based index of the last occurrence, -1 when absent
RFind(s, c) ==
    IF \E i \in 1..Len(s) : s[i] = c
    THEN (CHOOSE i \in 1..Len(s) : s[i] = c /\ \A j \in (i+1)..Len(s) : s[j] # c) - 1
    ELSE -1

\* s[a:b] with Python's treatment of negative and out-of-range indices
PySlice(s, a, b) ==
    LET n  == Len(s)
        lo == IF a < 0 THEN Max(n + a, 0) ELSE Min(a, n)
        hi == IF b < 0 THEN Max(n + b, 0) ELSE Min(b, n)
    IN  IF lo >= hi THEN <<>> ELSE SubSeq(s, lo + 1, hi)

UpperToLower ==
    [A |-> "a", B |-> "b", C |-> "c", D |-> "d", E |-> "e", F |-> "f", G |-> "g",
     H |-> "h", I |-> "i", J |-> "j", K |-> "k", L |-> "l", M |-> "m", N |-> "n",
     O |-> "o", P |-> "p", R |-> "r", S |-> "s", T |-> "t", U |-> "u", V |-> "v",
     W |-> "w", X |-> "x", Y |-> "y", Z |-> "z"]

\* str.lower()
Lower(s) == [i \in 1..Len(s) |->
               IF s[i] \in DOMAIN UpperToLower THEN UpperToLower[s[i]] ELSE s[i]]

\* str.strip(): blanks removed at both ends
RECURSIVE LStrip(_)
LStrip(s) == IF s # <<>> /\ Head(s) = " " THEN LStrip(Tail(s)) ELSE s

RECURSIVE RStrip(_)
RStrip(s) == IF s # <<>> /\ s[Len(s)] = " " THEN RStrip(SubSeq(s, 1, Len(s) - 1)) ELSE s

Strip(s) == RStrip(LStrip(s))

\* sub in s
Contains(s, sub) ==
    \E i \in 0..(Len(s) - Len(sub)) : SubSeq(s, i + 1, i + Len(sub)) = sub

\* sep.join(parts)
RECURSIVE Join(_, _)
Join(parts, sep) ==
    IF parts = <<>> THEN <<>>
    ELSE IF Len(parts) = 1 THEN parts[1]
    ELSE parts[1] \o sep \o Join(Tail(parts), sep)

RECURSIVE Flatten(_)
Flatten(parts) == IF parts = <<>> THEN <<>> ELSE Head(parts) \o Flatten(Tail(parts))

\* all sequences over S of length 0..n
SeqsUpTo(S, n) == UNION {[1..k -> S] : k \in 0..n}

-----------------------------------------------------------------------------
(* json.loads on atom text.  A value is [t, v]: t its JSON type, v the      *)
(* atoms of a string's content, of a numeral or literal, or of a nested     *)
(* object's source text.  An object is a function from keys to values.      *)

IntAtoms   == {"0", "1"}
FloatAtoms == {"0.9", "1.5"}
BoolAtoms  == {"true", "false"}

Str(v)  == [t |-> "str", v |-> v]
Fail    == [ok |-> FALSE, next |-> 0, val |-> Str(<<>>), dict |-> <<>>]

RECURSIVE SkipWs(_, _)
SkipWs(s, i) == IF i <= Len(s) /\ s[i] = " " THEN SkipWs(s, i + 1) ELSE i

\* a string literal starting at s[i] = Q: its content runs to the next Q
ParseString(s, i) ==
    IF i > Len(s) \/ s[i] # Q THEN Fail
    ELSE IF \E j \in (i+1)..Len(s) : s[j] = Q
         THEN LET j == CHOOSE j \in (i+1)..Len(s) :
                           s[j] = Q /\ \A k \in (i+1)..(j-1) : s[k] # Q
              IN  [ok |-> TRUE, next |-> j + 1, val |-> Str(SubSeq(s, i + 1, j - 1)),
                   dict |-> <<>>]
         ELSE Fail

RECURSIVE ParseValue(_, _), ParseObject(_, _), ParseMembers(_, _, _)

ParseValue(s, i) ==
    IF i > Len(s) THEN Fail
    ELSE IF s[i] = Q THEN ParseString(s, i)
    ELSE IF s[i] = "{" THEN
         LET o == ParseObject(s, i)
         IN  IF o.ok
             THEN [o EXCEPT !.val = [t |-> "obj", v |-> SubSeq(s, i, o.next - 1)]]
             ELSE Fail
    ELSE IF s[i] \in IntAtoms
         THEN [ok |-> TRUE, next |-> i + 1, val |-> [t |-> "int", v |-> <<s[i]>>], dict |-> <<>>]
    ELSE IF s[i] \in FloatAtoms
         THEN [ok |-> TRUE, next |-> i + 1, val |-> [t |-> "float", v |-> <<s[i]>>], dict |-> <<>>]
    ELSE IF s[i] \in BoolAtoms
         THEN [ok |-> TRUE, next |-> i + 1, val |-> [t |-> "bool", v |-> <<s[i]>>], dict |-> <<>>]
    ELSE IF s[i] = "null"
         THEN [ok |-> TRUE, next |-> i + 1, val |-> [t |-> "null", v |-> <<s[i]>>], dict |-> <<>>]
    ELSE Fail

\* members after "{" or ",": key ":" value, then "," and more, or "}";
\* a key given twice keeps its last value
ParseMembers(s, i, acc) ==
    LET k == ParseString(s, SkipWs(s, i))
    IN  IF ~k.ok THEN Fail
        ELSE LET c == SkipWs(s, k.next)
             IN  IF c > Len(s) \/ s[c] # ":" THEN Fail
                 ELSE LET v == ParseValue(s, SkipWs(s, c + 1))
                      IN  IF ~v.ok THEN Fail
                          ELSE LET key  == k.val.v
                                   acc2 == [x \in DOMAIN acc \cup {key} |->
                                              IF x = key THEN v.val ELSE acc[x]]
                                   e    == SkipWs(s, v.next)
                               IN  IF e > Len(s) THEN Fail
                                   ELSE IF s[e] = "," THEN ParseMembers(s, e + 1, acc2)
                                   ELSE IF s[e] = "}"
                                        THEN [ok |-> TRUE, next |-> e + 1,
                                              val |-> Str(<<>>), dict |-> acc2]
                                   ELSE Fail

ParseObject(s, i) ==
    IF i > Len(s) \/ s[i] # "{" THEN Fail
    ELSE LET j == SkipWs(s, i + 1)
         IN  IF j <= Len(s) /\ s[j] = "}"
             THEN [ok |-> TRUE, next |-> j + 1, val |-> Str(<<>>), dict |-> <<>>]
             ELSE ParseMembers(s, j, <<>>)

\* json.loads(s): [ok, isdict, dict]; ok = FALSE is json.JSONDecodeError
JsonLoads(s) ==
    LET i == SkipWs(s, 1)
        r == IF i <= Len(s) /\ s[i] = "{" THEN ParseObject(s, i) ELSE ParseValue(s, i)
    IN  IF r.ok /\ SkipWs(s, r.next) = Len(s) + 1
        THEN [ok |-> TRUE, isdict |-> (s[i] = "{"), dict |-> r.dict]
        ELSE [ok |-> FALSE, isdict |-> FALSE, dict |-> <<>>]

-----------------------------------------------------------------------------
(* MLLMAnalyzer.parse_llm_output *)

Key(name) == <<name>>

required_keys == <<Key("mismatch_detected"), Key("confidence_score"),
                   Key("mismatch_type"), Key("rationale")>>

ParseErrorText == <<"Failed to parse a valid JSON response from the MLLM.">>

\* the dictionary returned by the except branch
ErrorRecord(generated) ==
    [k \in {Key("error"), Key("raw_output")} |->
        IF k = Key("error") THEN Str(ParseErrorText) ELSE Str(generated)]

\* a slip: the first '}' taken for the last one
JsonCandidateFirstClose(generated) ==
    PySlice(generated, Find(generated, "{"), Find(generated, "}") + 1)

\* generated_text[generated_text.find('{') : generated_text.rfind('}')+1]
JsonCandidate(generated) ==
    PySlice(generated, Find(generated, "{"), RFind(generated, "}") + 1)

\* all(key in parsed_json for key in required_keys)
HasRequiredKeys(d) == \A i \in 1..Len(required_keys) : required_keys[i] \in DOMAIN d

\* isinstance(x, str) and x.lower() in ["yes", "no"]
MismatchDetectedOk(x) ==
    x.t = "str" /\ Lower(x.v) \in {<<"y", "e", "s">>, <<"n", "o">>}

\* isinstance(x, (int, float)); bool is a subclass of int
IsNumber(x) == x.t \in {"int", "float", "bool"}

parse_llm_output(generated) ==
    LET json_str == JsonCandidate(generated)
    IN  IF json_str = <<>> THEN ErrorRecord(generated)
        ELSE LET parsed == JsonLoads(json_str)
             IN  IF ~parsed.ok THEN ErrorRecord(generated)
                 ELSE IF ~parsed.isdict THEN ErrorRecord(generated)
                 ELSE IF ~HasRequiredKeys(parsed.dict) THEN ErrorRecord(generated)
                 ELSE IF ~MismatchDetectedOk(parsed.dict[Key("mismatch_detected")])
                      THEN ErrorRecord(generated)
                 ELSE IF ~IsNumber(parsed.dict[Key("confidence_score")])
                      THEN ErrorRecord(generated)
                 ELSE parsed.dict

-----------------------------------------------------------------------------
(* Raw model texts: prose, one rendered JSON object, prose *)

ProseAtoms == {"Sure!", "{", "}"}

Lit(atoms) == <<Q>> \o atoms \o <<Q>>

\* source text and parsed value of the values a field is given
MdValues ==
    { [src |-> Lit(<<"Y", "e", "s">>), val |-> Str(<<"Y", "e", "s">>)],
      [src |-> Lit(<<"N", "O">>),      val |-> Str(<<"N", "O">>)],
      [src |-> Lit(<<"n", "o">>),      val |-> Str(<<"n", "o">>)],
      [src |-> Lit(<<"Y">>),           val |-> Str(<<"Y">>)],
      [src |-> <<"1">>,                val |-> [t |-> "int", v |-> <<"1">>]],
      [src |-> <<"true">>,             val |-> [t |-> "bool", v |-> <<"true">>]] }

CsValues ==
    { [src |-> <<"0.9">>,      val |-> [t |-> "float", v |-> <<"0.9">>]],
      [src |-> <<"1">>,        val |-> [t |-> "int", v |-> <<"1">>]],
      [src |-> <<"true">>,     val |-> [t |-> "bool", v |-> <<"true">>]],
      [src |-> Lit(<<"0.9">>), val |-> Str(<<"0.9">>)],
      [src |-> <<"null">>,     val |-> [t |-> "null", v |-> <<"null">>]],
      [src |-> <<"{", "}">>,   val |-> [t |-> "obj", v |-> <<"{", "}">>]] }

RationaleValues ==
    { [src |-> Lit(<<"x">>),      val |-> Str(<<"x">>)],
      [src |-> Lit(<<"}", "{">>), val |-> Str(<<"}", "{">>)] }

PlainRationale == [src |-> Lit(<<"x">>), val |-> Str(<<"x">>)]

TypeValue == [src |-> Lit(<<"Visual Glitch">>), val |-> Str(<<"Visual Glitch">>)]

ValidMd == {m \in MdValues : m.val.t = "str" /\ Len(m.val.v) > 1}
ValidCs == {c \in CsValues : c.val.t \in {"int", "float"}}

\* "key": value
Member(name, value) == <<Q, name, Q, ":", " ">> \o value.src

\* the members of an object with the field dropped (0: none dropped)
Members(md, cs, ra, dropped) ==
    LET all == << [k |-> "mismatch_detected", x |-> md],
                  [k |-> "confidence_score",  x |-> cs],
                  [k |-> "mismatch_type",     x |-> TypeValue],
                  [k |-> "rationale",         x |-> ra] >>
    IN  SelectSeq(all, LAMBDA m : dropped = 0 \/ m.k # required_keys[dropped][1])

Damage == {"none", "no_close", "no_open", "no_comma", "trailing_comma", "no_colon", "twice"}

\* the text of the object, damaged as named
Render(ms, damage) ==
    LET texts == [i \in 1..Len(ms) |-> Member(ms[i].k, ms[i].x)]
        inner == Join(texts, <<",", " ">>)
    IN  CASE damage = "none"           -> <<"{">> \o inner \o <<"}">>
          [] damage = "no_close"       -> <<"{">> \o inner
          [] damage = "no_open"        -> inner \o <<"}">>
          [] damage = "no_comma"       -> <<"{">> \o Join(texts, <<" ">>) \o <<"}">>
          [] damage = "trailing_comma" -> <<"{">> \o inner \o <<",", "}">>
          [] damage = "no_colon"       -> <<"{">> \o SelectSeq(inner, LAMBDA a : a # ":") \o <<"}">>
          [] damage = "twice"          -> <<"{">> \o inner \o <<"}", " ", "{">> \o inner \o <<"}">>

\* the object a rendering of these members denotes
ObjectOf(ms) == [key \in {Key(ms[i].k) : i \in 1..Len(ms)} |->
                    (CHOOSE m \in {ms[i] : i \in 1..Len(ms)} : Key(m.k) = key).x.val]

\* family A: every short prose around a valid object, or around nothing
SurroundedTexts ==
    { [prefix |-> p, suffix |-> q, body |-> Render(Members(md, cs, ra, 0), "none"),
       valid |-> TRUE, obj |-> ObjectOf(Members(md, cs, ra, 0))] :
         p \in SeqsUpTo(ProseAtoms, MaxProse), q \in SeqsUpTo(ProseAtoms, MaxProse),
         md \in ValidMd, cs \in ValidCs, ra \in RationaleValues }
    \cup
    { [prefix |-> p, suffix |-> q, body |-> <<>>, valid |-> FALSE, obj |-> <<>>] :
         p \in SeqsUpTo(ProseAtoms, MaxProse), q \in SeqsUpTo(ProseAtoms, MaxProse) }

\* family B: every field value, dropped field and damage, in plain surroundings
VariedTexts ==
    { [prefix |-> p, suffix |-> q, body |-> Render(Members(md, cs, ra, dr), dmg),
       valid |-> (dr = 0 /\ dmg = "none" /\ md \in ValidMd /\ cs \in ValidCs),
       obj |-> ObjectOf(Members(md, cs, ra, dr))] :
         p \in {<<>>, <<"Sure!", " ">>}, q \in {<<>>, <<" ", "thanks">>},
         md \in MdValues, cs \in CsValues, ra \in {PlainRationale},
         dr \in 0..4, dmg \in Damage }

-----------------------------------------------------------------------------
(* State shared by the specifications *)

NA == "n/a"

Loaded ==
    /\ analyzer = "ready" /\ nlp = "loaded" /\ init_attempts = 1 /\ served = 0

-----------------------------------------------------------------------------
(* SpecParse: parse_llm_output applied to every raw model text *)

InitParse ==
    /\ Loaded
    /\ pc = "parse"
    /\ shape \in SurroundedTexts \cup VariedTexts
    /\ generated_text = shape.prefix \o shape.body \o shape.suffix
    /\ analysis_result = NA
    /\ screenshot_image = NA /\ review_text = NA /\ xml_file = NA
    /\ sentences = NA /\ functional_snippet = NA /\ ui_elements = NA
    /\ annotated = NA /\ task_prompt = NA /\ outcome = NA /\ calls = <<>>

ParseLLMOutput ==
    /\ pc = "parse"
    /\ analysis_result' = parse_llm_output(generated_text)
    /\ pc' = "parsed"
    /\ UNCHANGED <<analyzer, nlp, init_attempts, served, screenshot_image, review_text,
                   xml_file, sentences, functional_snippet, ui_elements, annotated,
                   task_prompt, generated_text, outcome, calls, shape>>

NextParse == ParseLLMOutput

SpecParse == InitParse /\ [][NextParse]_vars

IsErrorRecord(r, raw) == r = ErrorRecord(raw)

\* C1: whenever the candidate is empty or is not parseable JSON, or a required
\* key is absent, or mismatch_detected is not a string equal to "yes"/"no"
\* without regard to case, or confidence_score is not a JSON number (a boolean,
\* a string, null or an object is not one), parse_llm_output returns the
\* ErrorRecord whose raw_output is the input text.
C1_ErrorRecordOnInvalid ==
    pc = "parsed" =>
        LET cand == JsonCandidate(generated_text)
            p    == JsonLoads(cand)
            bad  == \/ cand = <<>>
                    \/ ~p.ok
                    \/ ~p.isdict
                    \/ ~HasRequiredKeys(p.dict)
                    \/ ~MismatchDetectedOk(p.dict[Key("mismatch_detected")])
                    \/ p.dict[Key("confidence_score")].t \notin {"int", "float"}
        IN  bad => IsErrorRecord(analysis_result, generated_text)

\* C2 as stated: for every prose around one valid object, the result is
\* exactly that object, without an 'error' key.
C2_Original ==
    (pc = "parsed" /\ shape.valid) =>
        /\ analysis_result = shape.obj
        /\ Key("error") \notin DOMAIN analysis_result

\* C2 amended: when the leading prose holds no '{' and the trailing prose no
\* '}', the candidate is the object's text and the result is exactly the
\* object, without an 'error' key.
C2_ExactObjectWhenNoStrayBrace ==
    (pc = "parsed" /\ shape.valid
       /\ Find(shape.prefix, "{") = -1 /\ Find(shape.suffix, "}") = -1) =>
        /\ JsonCandidate(generated_text) = shape.body
        /\ analysis_result = shape.obj
        /\ Key("error") \notin DOMAIN analysis_result

C2_Witness ==
    /\ pc = "parsed" /\ shape.valid
    /\ Find(shape.prefix, "}") # -1 /\ Find(shape.suffix, "{") # -1
    /\ Find(shape.prefix, "{") = -1 /\ Find(shape.suffix, "}") = -1
    /\ Contains(shape.body, <<"}", "{">>)
    /\ analysis_result = shape.obj

-----------------------------------------------------------------------------
(* core/gui_analysis.py: annotate_screenshot *)

\* str.replace(old, new) for a two-atom old
RECURSIVE Replace2(_, _, _)
Replace2(s, old, new) ==
    IF Len(s) < 2 THEN s
    ELSE IF SubSeq(s, 1, 2) = old THEN new \o Replace2(SubSeq(s, 3, Len(s)), old, new)
    ELSE <<Head(s)>> \o Replace2(Tail(s), old, new)

\* str.strip(chars)
RECURSIVE LStripChars(_, _)
LStripChars(s, chars) ==
    IF s # <<>> /\ Head(s) \in chars THEN LStripChars(Tail(s), chars) ELSE s

RECURSIVE RStripChars(_, _)
RStripChars(s, chars) ==
    IF s # <<>> /\ s[Len(s)] \in chars
    THEN RStripChars(SubSeq(s, 1, Len(s) - 1), chars) ELSE s

StripChars(s, chars) == RStripChars(LStripChars(s, chars), chars)

\* str.split(sep): always at least one part
RECURSIVE Split(_, _)
Split(s, sep) ==
    LET i == Find(s, sep)
    IN  IF i = -1 THEN <<s>>
        ELSE <<SubSeq(s, 1, i)>> \o Split(SubSeq(s, i + 2, Len(s)), sep)

DigitAtoms == {"0", "10", "20", "30"}

\* int(c) succeeds: blanks around, then digits only
IntParses(c) ==
    LET p == Strip(c) IN p # <<>> /\ \A i \in 1..Len(p) : p[i] \in DigitAtoms

\* lines 77-79: the coordinate texts, or a ValueError
ParseBounds(bounds) ==
    LET coords_str == StripChars(Replace2(bounds, <<"]", "[">>, <<",">>), {"[", "]"})
        parts      == Split(coords_str, ",")
    IN  IF (\A i \in 1..Len(parts) : IntParses(parts[i])) /\ Len(parts) = 4
        THEN [ok |-> TRUE, coords |-> [i \in 1..4 |-> Strip(parts[i])]]
        ELSE [ok |-> FALSE, coords |-> <<>>]

is_clickable(el) == el.clickable = "true"
has_text(el) == el.text # <<>>

\* a slip: both conditions demanded
QualifiesBoth(el) == is_clickable(el) /\ has_text(el)

\* line 74: is_clickable or has_text
Qualifies(el) == is_clickable(el) \/ has_text(el)

\* line 65
FirstLabel == 1

\* lines 82-89: the box and the label tag burnt into the image
DrawWidget(img, el, index, coords, label_counter) ==
    Append(img, [index |-> index, coords |-> coords,
                 color |-> IF is_clickable(el) THEN "green" ELSE "blue",
                 label_text |-> ToString(label_counter)])

\* the description of a labelled widget; the label is then used up
AfterDraw(st, el) ==
    [st EXCEPT !.details = Append(@, <<"label ", ToString(st.label_counter), ": class=",
                                       el.class, ", text=">> \o el.text
                                     \o <<", clickable=", el.clickable>>),
               !.label_counter = @ + 1]

\* a widget whose bounds do not parse is skipped
OnBadBounds(st) == st

\* lines 69-89: the loop over the elements, from element i on
RECURSIVE AnnotateLoop(_, _, _)
AnnotateLoop(elements, i, st) ==
    IF i > Len(elements) THEN st
    ELSE LET el == elements[i]
         IN  IF Qualifies(el)
             THEN LET b == ParseBounds(el.bounds)
                  IN  IF b.ok
                      THEN AnnotateLoop(elements, i + 1,
                             AfterDraw([st EXCEPT !.img =
                                 DrawWidget(@, el, i, b.coords, st.label_counter)], el))
                      ELSE AnnotateLoop(elements, i + 1, OnBadBounds(st))
             ELSE AnnotateLoop(elements, i + 1, st)

\* the value returned after the loop: the saved image's path and the details
AnnotateReturn(st) ==
    [ret |-> "tuple", path |-> "annotated.png", widget_details |-> st.details,
     img |-> st.img]

ReturnsNone == [ret |-> "None", path |-> NA, widget_details |-> <<>>, img |-> <<>>]

\* image: "missing" (no such file), "corrupt" (cv2.imread gives None) or "ok"
annotate_screenshot(image, elements) ==
    IF image = "missing" THEN ReturnsNone
    ELSE IF image = "corrupt" THEN ReturnsNone
    ELSE AnnotateReturn(AnnotateLoop(elements, 1,
            [label_counter |-> FirstLabel, details |-> <<>>, img |-> <<>>]))

\* bounds texts
B(x1, y1, x2, y2) == <<"[", x1, ",", y1, "]", "[", x2, ",", y2, "]">>

GoodBounds == B("0", "0", "10", "20")

BoundsTexts ==
    { GoodBounds,
      <<"[", "0", ",", "0", "]", "[", "10", "]">>,
      B("0", "0", "10", "20") \o <<"[", "30", ",", "30", "]">>,
      B("a", "0", "10", "20"),
      <<>>,
      <<"0", ",", "0", ",", "10", ",", "20">>,
      <<"[", "0", ",", "0", "]", ",", "[", "10", ",", "20", "]">>,
      <<"[">> \o GoodBounds \o <<"]">>,
      <<"[", "0", ",", " ", "0", "]", "[", "10", ",", " ", "20", "]">>,
      <<"[", "10", "0", ",", "0", "]", "[", "10", ",", "20", " ", "0", "]">> }

Element(cl, tx, bd) ==
    [class |-> "android.widget.Button", text |-> tx, resource_id |-> "",
     clickable |-> cl, bounds |-> bd]

Texts == {<<>>, <<"O", "K">>}

\* family A: every short list of widgets with good or bad bounds
\* family B: one widget with each bounds text
ElementLists ==
    SeqsUpTo({Element(cl, tx, bd) : cl \in {"true", "false"}, tx \in Texts,
                                    bd \in {GoodBounds, B("a", "0", "10", "20")}},
             MaxElements)
    \cup {<<Element(cl, tx, bd)>> : cl \in {"true", "false"}, tx \in Texts,
                                    bd \in BoundsTexts}

-----------------------------------------------------------------------------
(* SpecAnnotate: annotate_screenshot applied to every widget list *)

InitAnnotate ==
    /\ Loaded
    /\ pc = "annotate"
    /\ screenshot_image \in {"ok", "missing", "corrupt"}
    /\ ui_elements \in ElementLists
    /\ annotated = NA
    /\ review_text = NA /\ xml_file = NA /\ sentences = NA /\ functional_snippet = NA
    /\ task_prompt = NA /\ generated_text = NA /\ analysis_result = NA
    /\ outcome = NA /\ calls = <<>> /\ shape = NA

AnnotateScreenshot ==
    /\ pc = "annotate"
    /\ annotated' = annotate_screenshot(screenshot_image, ui_elements)
    /\ pc' = "annotated"
    /\ UNCHANGED <<analyzer, nlp, init_attempts, served, screenshot_image, review_text,
                   xml_file, sentences, functional_snippet, ui_elements, task_prompt,
                   generated_text, analysis_result, outcome, calls, shape>>

NextAnnotate == AnnotateScreenshot

SpecAnnotate == InitAnnotate /\ [][NextAnnotate]_vars

\* the widgets that were given a box, in the order drawn
Labelled == {annotated.img[k].index : k \in 1..Len(annotated.img)}

Clickable(el) == el.clickable = "true"
TextBearing(el) == Len(el.text) > 0

\* C6 as stated: every widget that is clickable or text-bearing gets a
\* label, the labels being 1, 2, ... in traversal order; the others get none.
C6_Original ==
    (pc = "annotated" /\ annotated.ret = "tuple") =>
        /\ \A i \in 1..Len(ui_elements) :
              (Clickable(ui_elements[i]) \/ TextBearing(ui_elements[i])) <=> i \in Labelled
        /\ \A k \in 1..Len(annotated.img) : annotated.img[k].label_text = ToString(k)
        /\ \A k \in 1..(Len(annotated.img) - 1) :
              annotated.img[k].index < annotated.img[k + 1].index

\* C6 amended: the widgets that are clickable or text-bearing and whose
\* bounds parse get the labels 1, 2, ... in traversal order, one box and one
\* description each; a qualifying widget with unparseable bounds and every
\* widget that is neither clickable nor text-bearing get no label, no box and
\* no description.
C6_LabelsOfParseableQualifying ==
    (pc = "annotated" /\ annotated.ret = "tuple") =>
        /\ \A i \in 1..Len(ui_elements) :
              ((Clickable(ui_elements[i]) \/ TextBearing(ui_elements[i]))
                 /\ ParseBounds(ui_elements[i].bounds).ok) <=> i \in Labelled
        /\ \A k \in 1..Len(annotated.img) : annotated.img[k].label_text = ToString(k)
        /\ \A k \in 1..(Len(annotated.img) - 1) :
              annotated.img[k].index < annotated.img[k + 1].index
        /\ Len(annotated.widget_details) = Len(annotated.img)
        /\ \A k \in 1..Len(annotated.img) :
              /\ annotated.widget_details[k][2] = ToString(k)
              /\ Contains(annotated.widget_details[k], ui_elements[annotated.img[k].index].text)

\* a skipped qualifying widget between two labelled ones, and one left out
C6_Witness ==
    /\ pc = "annotated" /\ annotated.ret = "tuple"
    /\ Len(ui_elements) = 3
    /\ Clickable(ui_elements[2]) /\ ~ParseBounds(ui_elements[2].bounds).ok
    /\ Labelled = {1, 3}
    /\ annotated.img[2].label_text = "2"

-----------------------------------------------------------------------------
(* core/review_analysis.py *)

\* lines 42-45
keywords ==
    << <<"b", "u", "g">>,
       <<"c", "r", "a", "s", "h">>,
       <<"e", "r", "r", "o", "r">>,
       <<"b", "r", "o", "k", "e", "n">>,
       <<"g", "l", "i", "t", "c", "h">>,
       <<"i", "s", "s", "u", "e">>,
       <<"s", "t", "u", "c", "k">>,
       <<"n", "o", "t", " ", "w", "o", "r", "k", "i", "n", "g">>,
       <<"d", "o", "e", "s", "n", "'", "t", " ", "w", "o", "r", "k">>,
       <<"f", "a", "i", "l", "s", " ", "t", "o">>,
       <<"u", "n", "a", "b", "l", "e", " ", "t", "o">>,
       <<"c", "a", "n", "'", "t">> >>

\* any(kw in sent for kw in keywords)
HasKeyword(sent) == \E k \in 1..Len(keywords) : Contains(sent, keywords[k])

\* a slip: the scan keeps going and the last match wins
RECURSIVE LastMatch(_, _, _)
LastMatch(sents, i, found) ==
    IF i > Len(sents) THEN found
    ELSE LastMatch(sents, i + 1, IF HasKeyword(sents[i]) THEN sents[i] ELSE found)

ExtractLastMatch(sents) ==
    IF sents = <<>> THEN <<>> ELSE LastMatch(sents, 1, sents[1])

\* lines 47-51: the scan from sentence i on, then the default
RECURSIVE ScanSentences(_, _)
ScanSentences(sents, i) ==
    IF i > Len(sents) THEN sents[1]
    ELSE IF HasKeyword(sents[i]) THEN sents[i]
    ELSE ScanSentences(sents, i + 1)

extract_functional_snippets(sents) ==
    IF sents = <<>> THEN <<>> ELSE ScanSentences(sents, 1)

Terminators == {".", "!", "?"}

\* doc.sents: a sentence ends with its terminator (or with the text)
RECURSIVE Sents(_, _)
Sents(text, cur) ==
    IF text = <<>> THEN (IF cur = <<>> THEN <<>> ELSE <<cur>>)
    ELSE IF Head(text) \in Terminators
         THEN <<Append(cur, Head(text))>> \o Sents(Tail(text), <<>>)
    ELSE Sents(Tail(text), Append(cur, Head(text)))

\* lines 22-26
preprocess_and_segment_review(model, text) ==
    IF model = "None" \/ text = <<>> THEN <<>>
    ELSE LET doc == Sents(Strip(Lower(text)), <<>>)
         IN  SelectSeq([i \in 1..Len(doc) |-> Strip(doc[i])], LAMBDA x : x # <<>>)

\* reviews
ReviewCrash   == <<"T", "h", "e", " ", "a", "p", "p", " ", "c", "r", "a", "s", "h", "e", "d", ".", " ", "I", " ", "l", "o", "v", "e", " ", "t", "h", "e", " ", "c", "o", "l", "o", "r", "s", ".">>
ReviewGreat   == <<"G", "r", "e", "a", "t", " ", "a", "p", "p", ",", " ", "l", "o", "v", "e", " ", "i", "t", "!">>
ReviewLate    == <<"N", "i", "c", "e", ".", " ", "S", "o", " ", "s", "l", "o", "w", ".", " ", "I", "t", " ", "i", "s", " ", "S", "T", "U", "C", "K", " ", "n", "o", "w", ".", " ", "C", "a", "n", "'", "t", " ", "l", "o", "g", " ", "i", "n">>
ReviewBlank   == <<" ", " ">>
ReviewEmpty   == <<>>

Reviews == {ReviewCrash, ReviewGreat, ReviewLate, ReviewBlank, ReviewEmpty}

\* sentences: a few whole ones, and every short run of vocabulary pieces
SentCrashed == <<"t", "h", "e", " ", "a", "p", "p", " ", "c", "r", "a", "s", "h", "e", "d", ".">>
SentColors  == <<"i", " ", "l", "o", "v", "e", " ", "t", "h", "e", " ", "c", "o", "l", "o", "r", "s", ".">>
SentDebug   == <<"d", "e", "b", "u", "g", " ", "m", "e", "n", "u", " ", "i", "s", " ", "n", "i", "c", "e">>
SentStuck   == <<"i", "t", " ", "i", "s", " ", "n", "o", "t", " ", "w", "o", "r", "k", "i", "n", "g">>

Pieces == { <<"d", "e">>, <<"b", "u", "g">>, <<"c", "r", "a", "s", "h">>, <<"e", "d">>, <<"n", "o", "t">>, <<" ">>, <<"w", "o", "r", "k", "i", "n", "g">>, <<"o", "k">> }

PieceSentences ==
    {s \in {Flatten(ps) : ps \in SeqsUpTo(Pieces, MaxPieces)} : s # <<>> /\ Strip(s) = s}

SentenceLists ==
    SeqsUpTo({SentCrashed, SentColors, SentDebug, SentStuck}, MaxSentences)
    \cup {<<a, b>> : a \in {SentColors, SentCrashed}, b \in PieceSentences}

-----------------------------------------------------------------------------
(* SpecSnippet: the review functions applied to reviews and sentence lists *)

InitSnippet ==
    /\ Loaded
    /\ \/ /\ pc = "segment" /\ shape = "review"
          /\ review_text \in Reviews /\ sentences = NA
       \/ /\ pc = "extract" /\ shape = "sentences"
          /\ review_text = NA /\ sentences \in SentenceLists
    /\ functional_snippet = NA
    /\ screenshot_image = NA /\ xml_file = NA /\ ui_elements = NA /\ annotated = NA
    /\ task_prompt = NA /\ generated_text = NA /\ analysis_result = NA
    /\ outcome = NA /\ calls = <<>>

PreprocessAndSegment ==
    /\ pc = "segment"
    /\ sentences' = preprocess_and_segment_review(nlp, review_text)
    /\ pc' = "extract"
    /\ UNCHANGED <<analyzer, nlp, init_attempts, served, screenshot_image, review_text,
                   xml_file, functional_snippet, ui_elements, annotated, task_prompt,
                   generated_text, analysis_result, outcome, calls, shape>>

ExtractFunctionalSnippets ==
    /\ pc = "extract"
    /\ functional_snippet' = extract_functional_snippets(sentences)
    /\ pc' = "extracted"
    /\ UNCHANGED <<analyzer, nlp, init_attempts, served, screenshot_image, review_text,
                   xml_file, sentences, ui_elements, annotated, task_prompt,
                   generated_text, analysis_result, outcome, calls, shape>>

NextSnippet == PreprocessAndSegment \/ ExtractFunctionalSnippets

SpecSnippet == InitSnippet /\ [][NextSnippet]_vars

KeywordSet == {keywords[k] : k \in 1..Len(keywords)}
Mentions(sent) == \E kw \in KeywordSet : Contains(sent, kw)

\* C7: the snippet is the first sentence, in list order, that contains a
\* keyword; the first sentence when none does; empty for an empty list; so
\* it is empty or one of the sentences.
C7_FirstKeywordSentence ==
    pc = "extracted" =>
        /\ sentences = <<>> => functional_snippet = <<>>
        /\ (sentences # <<>> /\ \A i \in 1..Len(sentences) : ~Mentions(sentences[i]))
              => functional_snippet = sentences[1]
        /\ \A i \in 1..Len(sentences) :
              (Mentions(sentences[i]) /\ \A j \in 1..(i - 1) : ~Mentions(sentences[j]))
                 => functional_snippet = sentences[i]
        /\ functional_snippet = <<>> \/ \E i \in 1..Len(sentences) : functional_snippet = sentences[i]

\* a keyword sentence that is neither the first nor the last one to match
C7_Witness ==
    /\ pc = "extracted" /\ Len(sentences) = 3
    /\ ~Mentions(sentences[1]) /\ Mentions(sentences[2]) /\ Mentions(sentences[3])
    /\ sentences[2] # sentences[3]
    /\ functional_snippet = sentences[2]

-----------------------------------------------------------------------------
(* MLLMAnalyzer.construct_prompt *)

NL == "\n"

NoWidgetDetails == <<"No widget details extracted.">>

\* the template's fixed text: lines 66-69
TemplateHead ==
    << NL,
       "Analyze the provided mobile UI screenshot to determine if there is a mismatch between the visual interface and the user's feedback.",
       NL,
       NL,
       "**User Review Snippet:**",
       NL >>

\* lines 70-73
TemplateMid ==
    << NL,
       NL,
       "**Annotated Widget Details:**",
       NL,
       "(Refer to the numbered widgets in the image)",
       NL >>

\* lines 74-91
TemplateTail ==
    << NL,
       NL,
       "**Your Task:**",
       NL,
       "1.  **Identify the User's Core Complaint:** What specific UI element and problem is the user describing?",
       NL,
       "2.  **Ground the Complaint:** Locate the relevant widget in the image and its details using the provided annotations.",
       NL,
       "3.  **Analyze for Mismatch:** Compare the user's complaint with the visual and structural evidence. Does the UI imply a functionality that the user reports as broken or missing?",
       NL,
       "4.  **Provide a Conclusion in JSON format.**",
       NL,
       NL,
       "**JSON Output Format:**",
       NL,
       "Please provide your final analysis ONLY in the following JSON format. Do not add any text before or after the JSON block.",
       NL,
       "{",
       NL,
       "  \"mismatch_detected\": \"Yes\" or \"No\",",
       NL,
       "  \"confidence_score\": <A float between 0.0 and 1.0>,",
       NL,
       "  \"mismatch_type\": \"<'Non-Functional Element', 'Feature Misrepresentation', 'Visual Glitch', or 'None'>\",",
       NL,
       "  \"rationale\": \"<A concise, step-by-step explanation of your reasoning. Start by identifying the user's claim, then ground it to a widget, and finally explain why it is or is not a mismatch.>\",",
       NL,
       "  \"relevant_widget_id\": <The number of the most relevant widget, or null>",
       NL,
       "}",
       NL >>

\* a slip: the descriptions run together on one line
WidgetStrSpaces(widget_details) ==
    IF widget_details # <<>> THEN Join(widget_details, <<" ">>) ELSE NoWidgetDetails

\* line 63
WidgetStr(widget_details) ==
    IF widget_details # <<>> THEN Join(widget_details, <<NL>>) ELSE NoWidgetDetails

\* lines 66-92
construct_prompt(widget_details, review_snippet) ==
    TemplateHead \o <<Q>> \o review_snippet \o <<Q>> \o TemplateMid
        \o WidgetStr(widget_details) \o TemplateTail

Snippets == { <<"t", "h", "e", " ", "a", "p", "p", " ", "c", "r", "a", "s", "h", "e", "d", ".">>,
              <<"t", "h", "e", " ", "\"", "o", "k", "\"", " ", "{", "b", "u", "t", "t", "o", "n", "}", " ", "i", "s", " ", "b", "r", "o", "k", "e", "n">>,
              <<"x", NL, "y">>,
              <<"z">> }

Descriptions == { <<"label ", "1", ": class=", "Button", ", text=", "O", "K", ", clickable=", "true">>,
                  <<"label ", "2", ": class=", "TextView", ", text=", "{", Q, "}", ", clickable=", "false">>,
                  <<"label ", "3", ": class=", "N/A", ", text=", "a", NL, "b", ", clickable=", "true">>,
                  <<>> }

-----------------------------------------------------------------------------
(* SpecPrompt: construct_prompt applied to snippets and description lists *)

InitPrompt ==
    /\ Loaded
    /\ pc = "prompt"
    /\ functional_snippet \in Snippets
    /\ annotated \in {[ret |-> "tuple", path |-> "annotated.png", widget_details |-> d,
                       img |-> <<>>] : d \in SeqsUpTo(Descriptions, MaxDetails)}
    /\ task_prompt = NA
    /\ screenshot_image = NA /\ review_text = NA /\ xml_file = NA /\ sentences = NA
    /\ ui_elements = NA /\ generated_text = NA /\ analysis_result = NA
    /\ outcome = NA /\ calls = <<>> /\ shape = NA

ConstructPrompt ==
    /\ pc = "prompt"
    /\ task_prompt' = construct_prompt(annotated.widget_details, functional_snippet)
    /\ pc' = "prompted"
    /\ UNCHANGED <<analyzer, nlp, init_attempts, served, screenshot_image, review_text,
                   xml_file, sentences, functional_snippet, ui_elements, annotated,
                   generated_text, analysis_result, outcome, calls, shape>>

NextPrompt == ConstructPrompt

SpecPrompt == InitPrompt /\ [][NextPrompt]_vars

\* s occurs in text at 0-based offset k
OccursAt(text, s, k) == k + Len(s) <= Len(text) /\ SubSeq(text, k + 1, k + Len(s)) = s

\* the descriptions occur one after the other from offset k on, a newline
\* between two of them
RECURSIVE InOrderFrom(_, _, _)
InOrderFrom(text, ds, k) ==
    IF ds = <<>> THEN TRUE
    ELSE /\ OccursAt(text, Head(ds), k)
         /\ Len(ds) > 1 => /\ OccursAt(text, <<NL>>, k + Len(Head(ds)))
                           /\ InOrderFrom(text, Tail(ds), k + Len(Head(ds)) + 1)

\* C8: for a non-empty list of descriptions the prompt holds the snippet
\* between double quotes and every description verbatim, in list order, a
\* newline between neighbours.
C8_PromptEmbedsInputs ==
    (pc = "prompted" /\ annotated.widget_details # <<>>) =>
        /\ \E k \in 0..Len(task_prompt) :
              OccursAt(task_prompt, <<Q>> \o functional_snippet \o <<Q>>, k)
        /\ \E k \in 0..Len(task_prompt) :
              InOrderFrom(task_prompt, annotated.widget_details, k)

C8_Witness ==
    /\ pc = "prompted" /\ Len(annotated.widget_details) = 2
    /\ annotated.widget_details[1] # annotated.widget_details[2]
    /\ annotated.widget_details[1] # <<>> /\ annotated.widget_details[2] # <<>>
    /\ Contains(functional_snippet, <<Q>>)
    /\ Contains(task_prompt, functional_snippet)

-----------------------------------------------------------------------------
(* core/gui_analysis.py: parse_xml_hierarchy *)

\* node.attrib.get(name, default)
Get(node, name, default) == IF name \in DOMAIN node THEN node[name] ELSE default

\* lines 36-42
ElementOf(node) ==
    [class       |-> Get(node, "class", "N/A"),
     text        |-> Get(node, "text", <<>>),
     resource_id |-> Get(node, "resource_id", ""),
     clickable   |-> Get(node, "clickable", "false"),
     bounds      |-> Get(node, "bounds", <<>>)]

\* a slip: nodes without geometry are kept
ParseXmlKeepAll(xml) ==
    IF xml.state = "missing" THEN <<>>
    ELSE IF xml.state = "malformed" THEN <<>>
    ELSE [i \in 1..Len(xml.nodes) |-> ElementOf(xml.nodes[i])]

\* xml: the file the path names; state "missing", "malformed" or "parsed",
\* nodes in root.iter() order
parse_xml_hierarchy(xml) ==
    IF xml.state = "missing" THEN <<>>
    ELSE IF xml.state = "malformed" THEN <<>>
    ELSE LET withBounds == SelectSeq(xml.nodes, LAMBDA node : "bounds" \in DOMAIN node)
         IN  [i \in 1..Len(withBounds) |-> ElementOf(withBounds[i])]

NodeRoot    == [class |-> "hierarchy"]
NodeBare    == [bounds |-> GoodBounds]
NodeButton  == [class |-> "android.widget.Button", text |-> <<"O", "K">>,
                resource_id |-> "id/ok", clickable |-> "true", bounds |-> GoodBounds]
NodeNoGeom  == [class |-> "android.widget.TextView", text |-> <<"O", "K">>,
                clickable |-> "true"]
NodeBadGeom == [text |-> <<"O", "K">>, bounds |-> B("a", "0", "10", "20")]

XmlContents ==
    { [state |-> "missing", nodes |-> <<>>],
      [state |-> "malformed", nodes |-> <<>>],
      [state |-> "parsed", nodes |-> <<NodeRoot>>],
      [state |-> "parsed", nodes |-> <<NodeRoot, NodeNoGeom>>],
      [state |-> "parsed", nodes |-> <<NodeRoot, NodeBare, NodeButton>>],
      [state |-> "parsed", nodes |-> <<NodeRoot, NodeBadGeom, NodeNoGeom, NodeButton>>] }

-----------------------------------------------------------------------------
(* MLLMAnalyzer.analyze_ui_review_pair, in two steps: up to the prompt, and  *)
(* the generation with the parse of its text                                 *)

ErrorOnly(message) == [k \in {Key("error")} |-> Str(<<message>>)]

MissingInputs == ErrorOnly("Missing image path or review snippet.")

ImageNotFound(path) ==
    [k \in {Key("error")} |-> Str(<<"Annotated image not found at ", path>>)]

\* line 140
GenerationFailed(e) ==
    [k \in {Key("error"), Key("details")} |->
        IF k = Key("error") THEN Str(<<"MLLM generation failed.">>) ELSE Str(e)]

\* a slip: the snippet is not looked at
NothingToAnalyzeImageOnly(image_path, review_snippet) == image_path = NA

\* line 106: not image_path or not review_snippet
NothingToAnalyze(image_path, review_snippet) ==
    image_path = NA \/ review_snippet = <<>>

-----------------------------------------------------------------------------
(* app.py *)

NotAvailable == <<"MLLM Analyzer is not available. Check server logs for initialization errors.">>
PleaseUpload == <<"Please upload a screenshot and provide a user review.">>
FailedScreenshot == <<"Failed to process the uploaded screenshot. It might be corrupted.">>

NoOutcome == [kind |-> "none", message |-> <<>>]
Unset     == [ret |-> "unset", path |-> NA, widget_details |-> <<>>, img |-> <<>>]

\* a slip: the handler goes on without an analyzer
UnavailableNever(a) == FALSE

\* line 25: not analyzer
Unavailable(a) == a # "ready"

\* lines 13-18: analyzer after the construction was tried
AnalyzerAfterInit(config_exists, load_ok) ==
    IF config_exists /\ load_ok THEN "ready" ELSE "None"

\* lines 66-69: the message of the error raised for an error record
ErrorMessage(result) ==
    result[Key("error")].v \o <<NL, NL, "Raw Output: ">>
        \o (IF Key("raw_output") \in DOMAIN result THEN result[Key("raw_output")].v ELSE <<>>)

Screenshots ==
    { [kind |-> "None", file |-> NA], [kind |-> "pil", file |-> NA],
      [kind |-> "file", file |-> "missing"], [kind |-> "file", file |-> "corrupt"],
      [kind |-> "file", file |-> "ok"] }

XmlFiles ==
    {[kind |-> "None", content |-> [state |-> "missing", nodes |-> <<>>]]}
    \cup {[kind |-> "file", content |-> c] : c \in XmlContents}

RequestReviews == {ReviewCrash, ReviewGreat, ReviewBlank, ReviewEmpty}

GoodObject == Members(CHOOSE m \in MdValues : m.val.v = <<"Y", "e", "s">>,
                      CHOOSE c \in CsValues : c.val.t = "float", PlainRationale, 0)

\* what the generation does: raises e, or returns a text
Generations ==
    { [raises |-> TRUE,  text |-> <<"CUDA out of memory">>],
      [raises |-> FALSE, text |-> <<"Sure!", " ">> \o Render(GoodObject, "none")],
      [raises |-> FALSE, text |-> Render(GoodObject, "no_close")],
      [raises |-> FALSE, text |-> <<"Sure!">>] }

\* what a request meets: whether the saved image opens, what the model does
Environments == [open : {"ok", "FileNotFoundError"}, gen : Generations]

Init ==
    /\ analyzer = "unset" /\ nlp = "unset" /\ init_attempts = 0
    /\ pc = "boot" /\ served = 0
    /\ screenshot_image = [kind |-> "None", file |-> NA]
    /\ review_text = <<>>
    /\ xml_file = [kind |-> "None", content |-> [state |-> "missing", nodes |-> <<>>]]
    /\ sentences = <<>> /\ functional_snippet = <<>> /\ ui_elements = <<>>
    /\ annotated = Unset /\ task_prompt = <<>> /\ generated_text = <<>>
    /\ analysis_result = <<>> /\ outcome = NoOutcome /\ calls = <<>>
    /\ shape = [open |-> "ok", gen |-> [raises |-> FALSE, text |-> <<>>]]

\* review_analysis.py:5-10 and app.py:13-18, run once when the modules load
Startup ==
    /\ pc = "boot"
    /\ nlp' \in {"loaded", "None"}
    /\ \E config_exists \in BOOLEAN, load_ok \in BOOLEAN :
          analyzer' = AnalyzerAfterInit(config_exists, load_ok)
    /\ init_attempts' = init_attempts + 1
    /\ pc' = "idle"
    /\ UNCHANGED <<served, screenshot_image, review_text, xml_file, sentences,
                   functional_snippet, ui_elements, annotated, task_prompt,
                   generated_text, analysis_result, outcome, calls, shape>>

\* the button is clicked: run_vipra_ui_analysis is entered
Request ==
    /\ pc = "idle" /\ served < MaxRequests
    /\ served' = served + 1
    /\ screenshot_image' \in Screenshots
    /\ review_text' \in RequestReviews
    /\ xml_file' \in XmlFiles
    /\ shape' \in Environments
    /\ sentences' = <<>> /\ functional_snippet' = <<>> /\ ui_elements' = <<>>
    /\ annotated' = Unset /\ task_prompt' = <<>> /\ generated_text' = <<>>
    /\ analysis_result' = <<>> /\ outcome' = NoOutcome /\ calls' = <<>>
    /\ pc' = "check_analyzer"
    /\ UNCHANGED <<analyzer, nlp, init_attempts>>

\* the handler ends: an error is raised, or the results are returned
Ends(kind, message) ==
    /\ outcome' = [kind |-> kind, message |-> message]
    /\ pc' = "idle"

\* lines 25-26
CheckAnalyzer ==
    /\ pc = "check_analyzer"
    /\ IF Unavailable(analyzer)
       THEN Ends("gr.Error", NotAvailable)
       ELSE pc' = "check_inputs" /\ UNCHANGED outcome
    /\ UNCHANGED <<analyzer, nlp, init_attempts, served, screenshot_image, review_text,
                   xml_file, sentences, functional_snippet, ui_elements, annotated,
                   task_prompt, generated_text, analysis_result, calls, shape>>

\* lines 28-37
CheckInputs ==
    /\ pc = "check_inputs"
    /\ IF screenshot_image.kind = "None" \/ Strip(review_text) = <<>>
       THEN Ends("gr.Error", PleaseUpload)
       ELSE IF screenshot_image.kind = "pil"
            THEN Ends("AttributeError", <<"'Image' object has no attribute 'name'">>)
            ELSE pc' = "review" /\ UNCHANGED outcome
    /\ UNCHANGED <<analyzer, nlp, init_attempts, served, screenshot_image, review_text,
                   xml_file, sentences, functional_snippet, ui_elements, annotated,
                   task_prompt, generated_text, analysis_result, calls, shape>>

\* lines 40-41
ReviewAnalysis ==
    /\ pc = "review"
    /\ sentences' = preprocess_and_segment_review(nlp, review_text)
    /\ functional_snippet' = extract_functional_snippets(sentences')
    /\ calls' = calls \o <<"segment", "extract">>
    /\ pc' = "gui"
    /\ UNCHANGED <<analyzer, nlp, init_attempts, served, screenshot_image, review_text,
                   xml_file, ui_elements, annotated, task_prompt, generated_text,
                   analysis_result, outcome, shape>>

\* lines 45-47
GuiAnalysis ==
    /\ pc = "gui"
    /\ IF xml_file.kind = "file"
       THEN /\ ui_elements' = parse_xml_hierarchy(xml_file.content)
            /\ calls' = Append(calls, "parse_xml")
       ELSE /\ ui_elements' = <<>>
            /\ UNCHANGED calls
    /\ pc' = "annotate"
    /\ UNCHANGED <<analyzer, nlp, init_attempts, served, screenshot_image, review_text,
                   xml_file, sentences, functional_snippet, annotated, task_prompt,
                   generated_text, analysis_result, outcome, shape>>

\* lines 50-53: the call, the unpacking of its value into two names, the test
Annotate ==
    /\ pc = "annotate"
    /\ annotated' = annotate_screenshot(screenshot_image.file, ui_elements)
    /\ calls' = Append(calls, "annotate")
    /\ IF annotated'.ret = "None"
       THEN Ends("TypeError", <<"cannot unpack non-iterable NoneType object">>)
       ELSE IF annotated'.path = NA
            THEN Ends("gr.Error", FailedScreenshot)
            ELSE pc' = "analyze" /\ UNCHANGED outcome
    /\ UNCHANGED <<analyzer, nlp, init_attempts, served, screenshot_image, review_text,
                   xml_file, sentences, functional_snippet, ui_elements, task_prompt,
                   generated_text, analysis_result, shape>>

\* mllm_integration.py:106-124
Analyze ==
    /\ pc = "analyze"
    /\ IF NothingToAnalyze(annotated.path, functional_snippet)
       THEN /\ analysis_result' = MissingInputs
            /\ calls' = Append(calls, "analyze")
            /\ pc' = "format"
            /\ UNCHANGED task_prompt
       ELSE IF shape.open = "FileNotFoundError"
            THEN /\ analysis_result' = ImageNotFound(annotated.path)
                 /\ calls' = calls \o <<"analyze", "image_open">>
                 /\ pc' = "format"
                 /\ UNCHANGED task_prompt
            ELSE /\ task_prompt' = construct_prompt(annotated.widget_details,
                                                    functional_snippet)
                 /\ calls' = calls \o <<"analyze", "image_open", "construct_prompt",
                                        "processor">>
                 /\ pc' = "generate"
                 /\ UNCHANGED analysis_result
    /\ UNCHANGED <<analyzer, nlp, init_attempts, served, screenshot_image, review_text,
                   xml_file, sentences, functional_snippet, ui_elements, annotated,
                   generated_text, outcome, shape>>

\* mllm_integration.py:127-143
Generate ==
    /\ pc = "generate"
    /\ IF shape.gen.raises
       THEN /\ analysis_result' = GenerationFailed(shape.gen.text)
            /\ calls' = Append(calls, "generate")
            /\ UNCHANGED generated_text
       ELSE /\ generated_text' = shape.gen.text
            /\ analysis_result' = parse_llm_output(generated_text')
            /\ calls' = calls \o <<"generate", "parse_llm_output">>
    /\ pc' = "format"
    /\ UNCHANGED <<analyzer, nlp, init_attempts, served, screenshot_image, review_text,
                   xml_file, sentences, functional_snippet, ui_elements, annotated,
                   task_prompt, outcome, shape>>

\* app.py:66-74
FormatResult ==
    /\ pc = "format"
    /\ IF Key("error") \in DOMAIN analysis_result
       THEN Ends("gr.Error", ErrorMessage(analysis_result))
       ELSE Ends("returned", <<>>)
    /\ UNCHANGED <<analyzer, nlp, init_attempts, served, screenshot_image, review_text,
                   xml_file, sentences, functional_snippet, ui_elements, annotated,
                   task_prompt, generated_text, analysis_result, calls, shape>>

Next ==
    \/ Startup
    \/ Request
    \/ CheckAnalyzer
    \/ CheckInputs
    \/ ReviewAnalysis
    \/ GuiAnalysis
    \/ Annotate
    \/ Analyze
    \/ Generate
    \/ FormatResult

Spec == Init /\ [][Next]_vars

-----------------------------------------------------------------------------
(* Claims about the request handler *)

Ran(stage) == \E i \in 1..Len(calls) : calls[i] = stage
Times(stage) == Cardinality({i \in 1..Len(calls) : calls[i] = stage})
Ended == pc = "idle" /\ outcome.kind # "none"

\* C3: a screenshot file that is missing or unreadable makes
\* annotate_screenshot yield no image, and the request ends with the error
\* "Failed to process the uploaded screenshot. It might be corrupted.", the
\* model not invoked and no other exception leaving the handler.
C3_UnreadableScreenshotAborts ==
    (Ended /\ Ran("annotate") /\ screenshot_image.file \in {"missing", "corrupt"}) =>
        /\ annotated.ret = "None"
        /\ outcome = [kind |-> "gr.Error", message |-> FailedScreenshot]
        /\ ~Ran("generate")

\* C4: when the generation raises, the request ends with a user-visible
\* error whose message carries the text of the exception.
C4_GenerationErrorCarriesText ==
    (Ended /\ Ran("generate") /\ shape.gen.raises) =>
        /\ outcome.kind = "gr.Error"
        /\ Contains(outcome.message, shape.gen.text)

\* C5: once start-up has left the analyzer unavailable, it stays unavailable,
\* no construction is tried again, and every request ends with the
\* 'MLLM Analyzer is not available' error at the handler's first check, no
\* other check or stage having run.
C5_UnavailableForever ==
    [][(pc # "boot" /\ analyzer = "None") =>
          /\ analyzer' = "None"
          /\ init_attempts' = init_attempts
          /\ pc' \in {"idle", "check_analyzer"}
          /\ calls' = <<>>
          /\ (pc = "check_analyzer" =>
                 /\ pc' = "idle"
                 /\ outcome' = [kind |-> "gr.Error", message |-> NotAvailable])]_vars

\* the second of two requests, of which one had every input in order, refused
C5_Witness ==
    /\ analyzer = "None" /\ init_attempts = 1 /\ served = 2 /\ Ended
    /\ screenshot_image.file = "ok" /\ Strip(review_text) # <<>>
    /\ outcome.message = NotAvailable

\* the structural description gives no widget: not supplied, no such file,
\* malformed, or no element with 'bounds'
NoWidgets(xml) ==
    \/ xml.kind = "None"
    \/ xml.content.state \in {"missing", "malformed"}
    \/ \A i \in 1..Len(xml.content.nodes) : "bounds" \notin DOMAIN xml.content.nodes[i]

\* C9: when the structural description gives no widget, the widget list is
\* empty and nothing is drawn; the request does not fail for it: with the
\* other inputs in order annotation and prompt construction run, the prompt's
\* widget section is "No widget details extracted.", and the request ends as
\* the generation and the parse of its text decide.
C9_NoWidgetsDegradesGracefully ==
    NoWidgets(xml_file) =>
        /\ (pc \in {"annotate", "analyze", "generate", "format"} \/ Ran("annotate"))
              => ui_elements = <<>>
        /\ (Ran("annotate") /\ annotated.ret = "tuple")
              => annotated.widget_details = <<>> /\ annotated.img = <<>>
        /\ (Ended /\ analyzer = "ready" /\ nlp = "loaded" /\ screenshot_image.file = "ok"
              /\ Strip(review_text) # <<>> /\ shape.open = "ok")
              => /\ Ran("annotate") /\ Ran("construct_prompt") /\ Ran("generate")
                 /\ Contains(task_prompt, TemplateMid \o NoWidgetDetails \o TemplateTail)
                 /\ outcome.kind = "returned" <=> Key("error") \notin DOMAIN analysis_result
                 /\ outcome.kind \in {"returned", "gr.Error"}

\* a file whose only widget-like node has no 'bounds', analysed to the end
C9_Witness ==
    /\ Ended /\ outcome.kind = "returned"
    /\ xml_file.kind = "file" /\ xml_file.content.state = "parsed"
    /\ Len(xml_file.content.nodes) > 1
    /\ NoWidgets(xml_file)
    /\ Contains(task_prompt, NoWidgetDetails)

StagesBeforeGenerate ==
    { <<"segment", "extract", "annotate", "analyze", "image_open", "construct_prompt",
        "processor">>,
      <<"segment", "extract", "parse_xml", "annotate", "analyze", "image_open",
        "construct_prompt", "processor">> }

\* C10: in a request the generation is invoked at most once and only after
\* every earlier stage passed; never without an analyzer, without an image,
\* with a blank review (these requests run no stage at all), without an
\* annotated image or with an empty snippet; a request that failed has ended,
\* and no stage runs twice.
C10_GenerateOnceAfterAllStages ==
    /\ Times("generate") <= 1
    /\ \A i, j \in 1..Len(calls) : calls[i] = calls[j] => i = j
    /\ Ran("generate") =>
          /\ analyzer = "ready"
          /\ screenshot_image.kind = "file" /\ screenshot_image.file = "ok"
          /\ Strip(review_text) # <<>>
          /\ annotated.ret = "tuple" /\ annotated.path # NA
          /\ functional_snippet # <<>>
          /\ \E k \in 1..Len(calls) :
                calls[k] = "generate" /\ SubSeq(calls, 1, k - 1) \in StagesBeforeGenerate
    /\ (pc # "boot" /\ (analyzer # "ready" \/ screenshot_image.kind = "None"
                          \/ Strip(review_text) = <<>>)) => calls = <<>>
    /\ outcome.kind # "none" => pc = "idle"

\* a second request that failed after its one generation
C10_Witness ==
    /\ Ended /\ served = 2 /\ Times("generate") = 1
    /\ outcome.kind = "gr.Error"
    /\ Ran("parse_llm_output")

====
